---- MODULE Spec2Model ----
(***************************************************************************)
(* Model of the GATT characteristic marshaller of bleak:                    *)
(*   src/bleak/backends/marshall2904.py   (module "marshall2904")           *)
(*   src/bleak/backends/characteristic.py (module "characteristic")         *)
(* Both files define Table_2904_bytes_format, Table_uuid_to_marshaller,     *)
(* BleakGATTMarshaller and BleakGATTPackMarshaller; the two definitions     *)
(* differ and are modelled side by side, selected by the variable `module`. *)
(*                                                                          *)
(* Python values are records tagged by `kind`:                              *)
(*   int   [neg, mag]   arbitrary precision: mag is the magnitude as        *)
(*                      little-endian base-256 digits, no trailing zero     *)
(*   bool  [v]                                                              *)
(*   float [prec, sign, exp, frac, e10]  the IEEE fields of the value       *)
(*                      (frac: little-endian bytes, top one partial), and   *)
(*                      for a scaled integer [prec = 0, neg, mag, e10]:     *)
(*                      the exact value mag * 10^e10                        *)
(*   str   [cps]        sequence of code points                             *)
(*   bytes [b]          sequence of 0..255                                  *)
(*   tuple [items]                                                          *)
(*   error [exc]        the call raised exc                                 *)
(***************************************************************************)
EXTENDS Integers, Sequences, FiniteSets, TLC

\* ------------------------------------------------------------------ values

IntV(neg, mag) == [kind |-> "int", neg |-> neg, mag |-> mag]
BoolV(v) == [kind |-> "bool", v |-> v]
BytesV(b) == [kind |-> "bytes", b |-> b]
StrV(cps) == [kind |-> "str", cps |-> cps]
TupleV(items) == [kind |-> "tuple", items |-> items]
FloatV(prec, sign, exp, frac) ==
    [kind |-> "float", prec |-> prec, sign |-> sign, exp |-> exp, frac |-> frac]
ScaledV(base, e10) == [kind |-> "float", prec |-> 0, base |-> base, e10 |-> e10]
Raise(exc) == [kind |-> "error", exc |-> exc]
IsError(v) == v.kind = "error"

\* ------------------------------------------- arbitrary-precision integers

RECURSIVE Reverse(_)
Reverse(s) == IF s = <<>> THEN <<>> ELSE Append(Reverse(Tail(s)), Head(s))

RECURSIVE Strip(_)
\* drop the most significant zero digits
Strip(s) ==
    IF s = <<>> THEN <<>>
    ELSE IF s[Len(s)] = 0 THEN Strip(SubSeq(s, 1, Len(s) - 1)) ELSE s

RECURSIVE Repeat(_, _)
Repeat(b, n) == IF n <= 0 THEN <<>> ELSE <<b>> \o Repeat(b, n - 1)

ZeroPad(mag, w) == mag \o Repeat(0, w - Len(mag))

RECURSIVE AddCarry(_, _)
\* s + carry on fixed-width little-endian digits, overflow dropped
AddCarry(s, carry) ==
    IF s = <<>> THEN <<>>
    ELSE <<(Head(s) + carry) % 256>> \o AddCarry(Tail(s), (Head(s) + carry) \div 256)

\* two's complement negation at the width of s
TwosNeg(s) == AddCarry([i \in 1..Len(s) |-> 255 - s[i]], 1)

RECURSIVE MulSmall(_, _, _)
\* mag * k + carry
MulSmall(mag, k, carry) ==
    IF mag = <<>>
    THEN IF carry = 0 THEN <<>> ELSE <<carry % 256>> \o MulSmall(<<>>, k, carry \div 256)
    ELSE <<(Head(mag) * k + carry) % 256>>
         \o MulSmall(Tail(mag), k, (Head(mag) * k + carry) \div 256)

RECURSIVE DivSmallBE(_, _, _)
\* big-endian digits divided by k, remainder rem carried in
DivSmallBE(be, k, rem) ==
    IF be = <<>> THEN <<>>
    ELSE <<(rem * 256 + Head(be)) \div k>>
         \o DivSmallBE(Tail(be), k, (rem * 256 + Head(be)) % k)

\* floor(mag / k)
DivSmall(mag, k) == Strip(Reverse(DivSmallBE(Reverse(mag), k, 0)))

RECURSIVE Mul10Pow(_, _)
Mul10Pow(mag, n) == IF n <= 0 THEN mag ELSE Mul10Pow(MulSmall(mag, 10, 0), n - 1)

RECURSIVE Div10Pow(_, _)
Div10Pow(mag, n) == IF n <= 0 THEN mag ELSE Div10Pow(DivSmall(mag, 10), n - 1)

\* int of a small natural
RECURSIVE Digits(_)
Digits(n) == IF n = 0 THEN <<>> ELSE <<n % 256>> \o Digits(n \div 256)
PyInt(n) == IF n < 0 THEN IntV(TRUE, Digits(-n)) ELSE IntV(FALSE, Digits(n))

\* ------------------------------------------------------------ text (UTF-8)

Cont(b) == b >= 128 /\ b <= 191

\* str.encode('utf8') of one code point (surrogates are not valid text)
EncodeCp(c) ==
    IF c < 128 THEN <<c>>
    ELSE IF c < 2048 THEN <<192 + (c \div 64), 128 + (c % 64)>>
    ELSE IF c < 65536
         THEN <<224 + (c \div 4096), 128 + ((c \div 64) % 64), 128 + (c % 64)>>
    ELSE <<240 + (c \div 262144), 128 + ((c \div 4096) % 64),
           128 + ((c \div 64) % 64), 128 + (c % 64)>>

RECURSIVE Utf8Encode(_)
Utf8Encode(cps) ==
    IF cps = <<>> THEN <<>> ELSE EncodeCp(Head(cps)) \o Utf8Encode(Tail(cps))

\* number of bytes the lead byte b announces, 0 for an invalid lead byte
LeadLen(b) ==
    IF b < 128 THEN 1
    ELSE IF b >= 194 /\ b <= 223 THEN 2
    ELSE IF b >= 224 /\ b <= 239 THEN 3
    ELSE IF b >= 240 /\ b <= 244 THEN 4
    ELSE 0

\* the second byte's range depends on the lead byte (no overlong forms, no
\* surrogates, nothing above U+10FFFF)
SecondOk(lead, b) ==
    IF lead = 224 THEN b >= 160 /\ b <= 191
    ELSE IF lead = 237 THEN b >= 128 /\ b <= 159
    ELSE IF lead = 240 THEN b >= 144 /\ b <= 191
    ELSE IF lead = 244 THEN b >= 128 /\ b <= 143
    ELSE Cont(b)

WellFormedAt(b, n) ==
    /\ n > 0
    /\ Len(b) >= n
    /\ (n >= 2 => SecondOk(b[1], b[2]))
    /\ \A i \in 3..n : Cont(b[i])

DecodeCp(b, n) ==
    IF n = 1 THEN b[1]
    ELSE IF n = 2 THEN (b[1] - 192) * 64 + (b[2] - 128)
    ELSE IF n = 3 THEN (b[1] - 224) * 4096 + (b[2] - 128) * 64 + (b[3] - 128)
    ELSE (b[1] - 240) * 262144 + (b[2] - 128) * 4096 + (b[3] - 128) * 64 + (b[4] - 128)

RECURSIVE Utf8Valid(_)
Utf8Valid(b) ==
    IF b = <<>> THEN TRUE
    ELSE /\ WellFormedAt(b, LeadLen(b[1]))
         /\ Utf8Valid(SubSeq(b, LeadLen(b[1]) + 1, Len(b)))

RECURSIVE Utf8Decode(_)
\* the code points of a valid UTF-8 byte sequence
Utf8Decode(b) ==
    IF b = <<>> THEN <<>>
    ELSE <<DecodeCp(b, LeadLen(b[1]))>> \o Utf8Decode(SubSeq(b, LeadLen(b[1]) + 1, Len(b)))

\* marshall2904.py:14 / characteristic.py:30
str2bytes(s) ==
    IF s.kind = "str" THEN BytesV(Utf8Encode(s.cps)) ELSE Raise("AttributeError")

\* marshall2904.py:17 / characteristic.py:33
bytes2str(b) ==
    IF b.kind # "bytes" THEN Raise("AttributeError")
    ELSE IF Utf8Valid(b.b) THEN StrV(Utf8Decode(b.b))
    ELSE Raise("UnicodeDecodeError")

\* ------------------------------------------------------------------ struct
\* Python's struct module for the one-item formats of the two tables.  A
\* format starting with "<" is little-endian, standard size; one without a
\* prefix uses the host's byte order (host.big) and native size and alignment.

Code(fmt) ==
    CASE fmt \in {"<?", "?"} -> "?"
      [] fmt \in {"<B", "B"} -> "B"
      [] fmt \in {"<b", "b"} -> "b"
      [] fmt \in {"<H", "H"} -> "H"
      [] fmt \in {"<h", "h"} -> "h"
      [] fmt \in {"<I", "I"} -> "I"
      [] fmt \in {"<i", "i"} -> "i"
      [] fmt \in {"<Q", "Q"} -> "Q"
      [] fmt \in {"<f", "f"} -> "f"
      [] fmt \in {"<d", "d"} -> "d"

LittleEndian(fmt) ==
    fmt \in {"<?", "<B", "<b", "<H", "<h", "<I", "<i", "<Q", "<f", "<d"}

\* struct.calcsize of a one-item format
CalcSize(fmt) ==
    CASE Code(fmt) \in {"?", "B", "b"} -> 1
      [] Code(fmt) \in {"H", "h"} -> 2
      [] Code(fmt) \in {"I", "i", "f"} -> 4
      [] Code(fmt) \in {"Q", "d"} -> 8

SignedCode(code) == code \in {"b", "h", "i"}
UnsignedCode(code) == code \in {"B", "H", "I", "Q"}

\* the item's bytes, least significant first
Ordered(fmt, b, host) == IF LittleEndian(fmt) \/ ~host.big THEN b ELSE Reverse(b)

\* binary32: a signalling NaN has exponent 255, a non-zero fraction and the
\* top fraction bit clear; converting it between float and double sets that
\* bit on the builds where the conversion quiets NaNs (quiet = TRUE)
Quieted32(exp, frac, quiet) ==
    IF quiet /\ exp = 255 /\ frac # <<0, 0, 0>> /\ frac[3] < 64
    THEN <<frac[1], frac[2], frac[3] + 64>>
    ELSE frac

UnpackFloat32(le, quiet) ==
    FloatV(32, le[4] \div 128, ((le[4] % 128) * 2) + (le[3] \div 128),
           Quieted32(((le[4] % 128) * 2) + (le[3] \div 128),
                     <<le[1], le[2], le[3] % 128>>, quiet))

UnpackFloat64(le) ==
    FloatV(64, le[8] \div 128, ((le[8] % 128) * 16) + (le[7] \div 16),
           <<le[1], le[2], le[3], le[4], le[5], le[6], le[7] % 16>>)

PackFloat32(v, quiet) ==
    LET frac == Quieted32(v.exp, v.frac, quiet)
    IN  <<frac[1], frac[2], ((v.exp % 2) * 128) + frac[3],
          (v.sign * 128) + (v.exp \div 2)>>

PackFloat64(v) ==
    <<v.frac[1], v.frac[2], v.frac[3], v.frac[4], v.frac[5], v.frac[6],
      ((v.exp % 16) * 16) + v.frac[7], (v.sign * 128) + (v.exp \div 16)>>

\* struct.unpack(fmt, data)[0]
struct_unpack(fmt, data, host, quiet) ==
    IF Len(data) # CalcSize(fmt) THEN Raise("struct.error")
    ELSE LET le == Ordered(fmt, data, host)
             code == Code(fmt)
         IN  CASE code = "?" -> BoolV(le[1] # 0)
               [] UnsignedCode(code) -> IntV(FALSE, Strip(le))
               [] SignedCode(code) ->
                    IF le[Len(le)] >= 128
                    THEN IntV(TRUE, Strip(TwosNeg(le)))
                    ELSE IntV(FALSE, Strip(le))
               [] code = "f" -> UnpackFloat32(le, quiet)
               [] code = "d" -> UnpackFloat64(le)

\* an int fits the item of w bytes
InRange(code, w, neg, mag) ==
    IF UnsignedCode(code) THEN ~neg /\ Len(mag) <= w
    ELSE \/ Len(mag) < w
         \/ /\ Len(mag) = w
            /\ \/ mag[w] < 128
               \/ neg /\ mag[w] = 128 /\ \A i \in 1..(w - 1) : mag[i] = 0

\* bool is a subclass of int
AsInt(v) ==
    IF v.kind = "bool" THEN IntV(FALSE, IF v.v THEN <<1>> ELSE <<>>) ELSE v

RECURSIVE Truth(_)
\* Python truth value of an object
Truth(v) ==
    CASE v.kind = "bool" -> v.v
      [] v.kind = "int" -> v.mag # <<>>
      [] v.kind = "bytes" -> v.b # <<>>
      [] v.kind = "str" -> v.cps # <<>>
      [] v.kind = "tuple" -> v.items # <<>>
      [] v.kind = "None" -> FALSE
      [] v.kind = "descriptor" -> TRUE
      [] v.kind = "float" /\ v.prec = 0 -> Truth(v.base)
      [] v.kind = "float" /\ v.prec # 0 ->
           v.exp # 0 \/ \E i \in 1..Len(v.frac) : v.frac[i] # 0

\* struct.pack(fmt, v); v is what frompython returned, so for "f" and "d" it
\* is a float already
struct_pack(fmt, v, host, quiet) ==
    LET code == Code(fmt)
        w == CalcSize(fmt)
    IN  CASE code = "?" -> BytesV(<<IF Truth(v) THEN 1 ELSE 0>>)
          [] UnsignedCode(code) \/ SignedCode(code) ->
               IF v.kind \notin {"int", "bool"} THEN Raise("struct.error")
               ELSE LET n == AsInt(v)
                    IN  IF ~InRange(code, w, n.neg, n.mag) THEN Raise("struct.error")
                        ELSE BytesV(Ordered(fmt,
                                 IF n.neg THEN TwosNeg(ZeroPad(n.mag, w))
                                 ELSE ZeroPad(n.mag, w), host))
          [] code = "f" ->
               IF v.kind # "float" THEN Raise("struct.error")
               ELSE BytesV(Ordered(fmt, PackFloat32(v, quiet), host))
          [] code = "d" ->
               IF v.kind # "float" THEN Raise("struct.error")
               ELSE BytesV(Ordered(fmt, PackFloat64(v), host))

\* ------------------------------------------------- conversions and scaling

NoneV == [kind |-> "None"]

\* int(v): truncation toward zero for a float
PyToInt(v) ==
    CASE v.kind = "int" -> v
      [] v.kind = "bool" -> AsInt(v)
      [] v.kind = "float" /\ v.prec = 0 /\ v.base.kind = "int" ->
           IF v.e10 >= 0
           THEN IntV(v.base.neg, Mul10Pow(v.base.mag, v.e10))
           ELSE IntV(v.base.neg /\ Div10Pow(v.base.mag, -v.e10) # <<>>,
                     Div10Pow(v.base.mag, -v.e10))
      [] v.kind \in {"tuple", "None"} -> Raise("TypeError")

\* float(v)
PyToFloat(v) ==
    CASE v.kind = "float" -> v
      [] v.kind \in {"int", "bool"} -> ScaledV(AsInt(v), 0)
      [] v.kind \in {"tuple", "None"} -> Raise("TypeError")

\* bytes(v)
PyToBytes(v) ==
    CASE v.kind = "bytes" -> v
      [] v.kind \in {"str", "None"} -> Raise("TypeError")

\* the callables held by the format table, applied to v
Apply(fn, v) ==
    CASE fn = "bool" -> BoolV(Truth(v))
      [] fn = "int" -> PyToInt(v)
      [] fn = "float" -> PyToFloat(v)
      [] fn = "str2bytes" -> str2bytes(v)
      [] fn = "bytes2str" -> bytes2str(v)
      [] fn = "bytes" -> PyToBytes(v)

\* data / (10 ** e), e > 0: true division, the result is a float
TrueDivPow10(data, e) ==
    CASE data.kind \in {"int", "bool"} -> ScaledV(AsInt(data), -e)
      [] data.kind = "float" /\ data.prec = 0 -> ScaledV(data.base, data.e10 - e)
      [] data.kind = "float" /\ data.prec # 0 -> ScaledV(data, -e)
      [] data.kind \in {"str", "bytes", "tuple", "None"} -> Raise("TypeError")

\* data * (10 ** n), n > 0: an int stays an int
MulPow10(data, n) ==
    CASE data.kind \in {"int", "bool"} ->
           IntV(AsInt(data).neg, Mul10Pow(AsInt(data).mag, n))
      [] data.kind = "float" /\ data.prec = 0 -> ScaledV(data.base, data.e10 + n)
      [] data.kind = "float" /\ data.prec # 0 -> ScaledV(data, n)
      [] data.kind = "None" -> Raise("TypeError")

\* data * (10.0 ** e): the result is a float
MulFloatPow10(data, e) ==
    CASE data.kind \in {"int", "bool"} -> ScaledV(AsInt(data), e)
      [] data.kind = "float" /\ data.prec = 0 -> ScaledV(data.base, data.e10 + e)
      [] data.kind = "float" /\ data.prec # 0 -> ScaledV(data, e)

\* ------------------------------------------------------------ format tables

FormatEntry(fp, tp, length, fmt) ==
    [frompython |-> fp, topython |-> tp, length |-> length, format |-> fmt]

FormatCodes == {1, 2, 3, 4, 5, 6, 8, 10, 12, 13, 14, 16, 18, 20, 21, 25, 27}

\* marshall2904.py:20-44; a length of None is written 0 (both are false)
Table_2904_bytes_format ==
    [c \in FormatCodes |->
        CASE c = 1 -> FormatEntry("bool", "bool", 1, "<?")
          [] c \in {2, 3, 4} -> FormatEntry("int", "int", 1, "<B")
          [] c \in {5, 6} -> FormatEntry("int", "int", 2, "<H")
          [] c = 8 -> FormatEntry("int", "int", 4, "<I")
          [] c = 10 -> FormatEntry("int", "int", 8, "<Q")
          [] c = 12 -> FormatEntry("int", "int", 1, "<b")
          [] c \in {13, 14} -> FormatEntry("int", "int", 2, "<h")
          [] c = 16 -> FormatEntry("int", "int", 4, "<i")
          [] c = 18 -> FormatEntry("int", "int", 8, "<Q")
          [] c = 20 -> FormatEntry("float", "float", 4, "<f")
          [] c = 21 -> FormatEntry("float", "float", 8, "<d")
          [] c = 25 -> FormatEntry("str2bytes", "bytes2str", 0, "None")
          [] c = 27 -> FormatEntry("bytes", "bytes", 0, "None")]

\* characteristic.py:36-60: the same table with native-order formats
characteristic_Table_2904_bytes_format ==
    [c \in FormatCodes |->
        CASE c = 1 -> FormatEntry("bool", "bool", 1, "?")
          [] c \in {2, 3, 4} -> FormatEntry("int", "int", 1, "B")
          [] c \in {5, 6} -> FormatEntry("int", "int", 2, "H")
          [] c = 8 -> FormatEntry("int", "int", 4, "I")
          [] c = 10 -> FormatEntry("int", "int", 8, "Q")
          [] c = 12 -> FormatEntry("int", "int", 1, "b")
          [] c \in {13, 14} -> FormatEntry("int", "int", 2, "h")
          [] c = 16 -> FormatEntry("int", "int", 4, "i")
          [] c = 18 -> FormatEntry("int", "int", 8, "Q")
          [] c = 20 -> FormatEntry("float", "float", 4, "f")
          [] c = 21 -> FormatEntry("float", "float", 8, "d")
          [] c = 25 -> FormatEntry("str2bytes", "bytes2str", 0, "None")
          [] c = 27 -> FormatEntry("bytes", "bytes", 0, "None")]

TableOf(mod) ==
    IF mod = "marshall2904" THEN Table_2904_bytes_format
    ELSE characteristic_Table_2904_bytes_format

\* ------------------------------------------------ the 0x2904 descriptor

U16(lo, hi, big) == IF big THEN (lo * 256) + hi ELSE lo + (hi * 256)
I8(b) == IF b >= 128 THEN b - 256 ELSE b

Fields(format, exponent, unit, namespace, description) ==
    [kind |-> "fields", format |-> format, exponent |-> exponent, unit |-> unit,
     namespace |-> namespace, description |-> description]

\* marshall2904.py:56  struct.unpack("<BbHBH", data): 7 bytes, little-endian,
\* no padding
unpack_descr_2904(data) ==
    IF data.kind # "bytes" THEN Raise("TypeError")
    ELSE IF Len(data.b) # 7 THEN Raise("struct.error")
    ELSE Fields(data.b[1], I8(data.b[2]), U16(data.b[3], data.b[4], FALSE),
                data.b[5], U16(data.b[6], data.b[7], FALSE))

\* characteristic.py:71  struct.unpack("BbHBH", data): native byte order and
\* alignment, so the last H is aligned to offset 6 and the size is 8
characteristic_unpack_descr_2904(data, host) ==
    IF data.kind # "bytes" THEN Raise("TypeError")
    ELSE IF Len(data.b) # 8 THEN Raise("struct.error")
    ELSE Fields(data.b[1], I8(data.b[2]), U16(data.b[3], data.b[4], host.big),
                data.b[5], U16(data.b[7], data.b[8], host.big))

\* ------------------------------------------------------------- the codecs
\* An instance of BleakGATTMarshaller (or of a registered class, which
\* inherits its static marshall and unmarshall) has no fields; an instance of
\* BleakGATTPackMarshaller has the six fields __init__ sets.

BaseObj(class) == [kind |-> "object", class |-> class]

PackObj(entry, exponent, unit) ==
    [kind |-> "object", class |-> "BleakGATTPackMarshaller",
     frompython |-> entry.frompython, topython |-> entry.topython,
     length |-> entry.length, format |-> entry.format,
     exponent |-> exponent, unit |-> unit]

IsPack(obj) == obj.kind = "object" /\ obj.class = "BleakGATTPackMarshaller"

\* the argument `format` of __init__: a table entry or a format code
EntryArg(entry) == [kind |-> "entry", entry |-> entry]
CodeArg(code) == [kind |-> "code", code |-> code]

\* marshall2904.py:71-77.  Line 75 names sys, which the module never imports:
\* evaluating it raises NameError whenever exponent != 0.
BleakGATTPackMarshaller_init(format, exponent, unit) ==
    IF format.kind # "entry" THEN Raise("TypeError")
    ELSE IF exponent # 0 THEN Raise("NameError")
    ELSE PackObj(format.entry, exponent, unit)

\* characteristic.py:86-89: unpacking an int raises TypeError
characteristic_BleakGATTPackMarshaller_init(format, exponent, unit) ==
    IF format.kind # "entry" THEN Raise("TypeError")
    ELSE PackObj(format.entry, exponent, unit)

\* marshall2904.py:61-63 / characteristic.py:76-78
BleakGATTMarshaller_marshall(data) == PyToBytes(data)

\* marshall2904.py:65-67 / characteristic.py:80-82
BleakGATTMarshaller_unmarshall(data_bytes) == data_bytes

\* One step of a method: the value it has computed and whether it returned
\* (or raised) in this step.
Step(done, data) == [done |-> done \/ IsError(data), data |-> data]

\* marshall2904.py:80-85
marshall_scale(self, data) ==
    IF self.length = 0 THEN Step(TRUE, Apply(self.frompython, data))
    ELSE IF self.exponent > 0 THEN Step(FALSE, TrueDivPow10(data, self.exponent))
    ELSE IF self.exponent < 0 THEN Step(FALSE, MulPow10(data, -self.exponent))
    ELSE Step(FALSE, data)

\* characteristic.py:92-95: the exponent is not applied
characteristic_marshall_scale(self, data) ==
    IF self.length = 0 THEN Step(TRUE, Apply(self.frompython, data))
    ELSE Step(FALSE, data)

\* a faulty marshall_pack: the item is packed most significant byte first
marshall_pack_byteswapped(self, data, host, quiet) ==
    LET converted == Apply(self.frompython, data)
        data_bytes == struct_pack(self.format, converted, host, quiet)
    IN  IF IsError(converted) THEN converted
        ELSE IF IsError(data_bytes) THEN data_bytes
        ELSE BytesV(Reverse(data_bytes.b))

\* marshall2904.py:86-89 / characteristic.py:96-99
marshall_pack(self, data, host, quiet) ==
    LET converted == Apply(self.frompython, data)
        data_bytes == struct_pack(self.format, converted, host, quiet)
    IN  IF IsError(converted) THEN converted
        ELSE IF IsError(data_bytes) THEN data_bytes
        ELSE IF host.asserts /\ Len(data_bytes.b) # self.length
             THEN Raise("AssertionError")
        ELSE data_bytes

\* a faulty unmarshall_unpack: only a short input is refused, a long one is
\* decoded by its prefix
unmarshall_unpack_prefix(self, data_bytes, host, quiet) ==
    IF self.length = 0 THEN Step(TRUE, Apply(self.topython, data_bytes))
    ELSE IF Len(data_bytes.b) < self.length
         THEN Step(TRUE, Raise("AssertionError"))
    ELSE LET data == struct_unpack(self.format,
                                   SubSeq(data_bytes.b, 1, self.length), host, quiet)
         IN  IF IsError(data) THEN Step(TRUE, data)
             ELSE Step(FALSE, Apply(self.topython, data))

\* marshall2904.py:92-96.  With assertions compiled out (python -O) a wrong
\* length reaches struct.unpack, which raises struct.error.
unmarshall_unpack(self, data_bytes, host, quiet) ==
    IF self.length = 0 THEN Step(TRUE, Apply(self.topython, data_bytes))
    ELSE IF host.asserts /\ Len(data_bytes.b) # self.length
         THEN Step(TRUE, Raise("AssertionError"))
    ELSE LET data == struct_unpack(self.format, data_bytes.b, host, quiet)
         IN  IF IsError(data) THEN Step(TRUE, data)
             ELSE Step(FALSE, Apply(self.topython, data))

\* characteristic.py:102-106: the tuple struct.unpack returns is kept whole
\* and topython is not applied
characteristic_unmarshall_unpack(self, data_bytes, host, quiet) ==
    IF self.length = 0 THEN Step(TRUE, Apply(self.topython, data_bytes))
    ELSE IF host.asserts /\ Len(data_bytes.b) # self.length
         THEN Step(TRUE, Raise("AssertionError"))
    ELSE LET data == struct_unpack(self.format, data_bytes.b, host, quiet)
         IN  IF IsError(data) THEN Step(TRUE, data)
             ELSE Step(FALSE, TupleV(<<data>>))

\* marshall2904.py:97-99
unmarshall_scale(self, data) ==
    IF self.exponent # 0 THEN MulFloatPow10(data, self.exponent) ELSE data

\* characteristic.py:107-109
characteristic_unmarshall_scale(self, data) == data

\* marshall2904.py:79-89, the whole method
marshall(self, data, host, quiet) ==
    IF marshall_scale(self, data).done THEN marshall_scale(self, data).data
    ELSE marshall_pack(self, marshall_scale(self, data).data, host, quiet)

\* characteristic.py:91-99, the whole method
characteristic_marshall(self, data, host, quiet) ==
    IF characteristic_marshall_scale(self, data).done
    THEN characteristic_marshall_scale(self, data).data
    ELSE marshall_pack(self, characteristic_marshall_scale(self, data).data, host, quiet)

\* marshall2904.py:91-99, the whole method
unmarshall(self, data_bytes, host, quiet) ==
    IF unmarshall_unpack(self, data_bytes, host, quiet).done
    THEN unmarshall_unpack(self, data_bytes, host, quiet).data
    ELSE unmarshall_scale(self, unmarshall_unpack(self, data_bytes, host, quiet).data)

\* characteristic.py:101-109, the whole method
characteristic_unmarshall(self, data_bytes, host, quiet) ==
    IF characteristic_unmarshall_unpack(self, data_bytes, host, quiet).done
    THEN characteristic_unmarshall_unpack(self, data_bytes, host, quiet).data
    ELSE characteristic_unmarshall_scale(self,
             characteristic_unmarshall_unpack(self, data_bytes, host, quiet).data)

\* ----------------------------------------------------------- get_marshaller

NoUuid == "None"

\* a BleakGATTDescriptor object
DescriptorObj == [kind |-> "descriptor"]

Outcome(pc, result, parsed) == [pc |-> pc, result |-> result, parsed |-> parsed]

\* a faulty get_marshaller_lookup: the descriptor is looked at before the
\* registry
get_marshaller_lookup_descr_first(registry, descr_2904, uuid) ==
    IF Truth(descr_2904) THEN Outcome("await_read", NoneV, NoneV)
    ELSE IF uuid # NoUuid /\ uuid \in DOMAIN registry
    THEN Outcome("done", BaseObj(registry[uuid]), NoneV)
    ELSE Outcome("done", BaseObj("BleakGATTMarshaller"), NoneV)

\* marshall2904.py:51-55: the registry is consulted first; then, with a
\* descriptor, the coroutine suspends at the awaited read
get_marshaller_lookup(registry, descr_2904, uuid) ==
    IF uuid # NoUuid /\ uuid \in DOMAIN registry
    THEN Outcome("done", BaseObj(registry[uuid]), NoneV)
    ELSE IF Truth(descr_2904) THEN Outcome("await_read", NoneV, NoneV)
    ELSE Outcome("done", BaseObj("BleakGATTMarshaller"), NoneV)

\* marshall2904.py:55-59, resumed with what read_gatt_descriptor returned or
\* raised
get_marshaller_parse(descr_2904_data) ==
    IF IsError(descr_2904_data) THEN Outcome("done", descr_2904_data, NoneV)
    ELSE LET f == unpack_descr_2904(descr_2904_data)
         IN  IF IsError(f) THEN Outcome("done", f, f)
             ELSE IF f.format \in DOMAIN Table_2904_bytes_format
                  THEN Outcome("done",
                           BleakGATTPackMarshaller_init(
                               EntryArg(Table_2904_bytes_format[f.format]),
                               f.exponent, f.unit), f)
             ELSE Outcome("done", BaseObj("BleakGATTMarshaller"), f)

\* marshall2904.py:50-59, the whole coroutine, given what the read returns
get_marshaller(registry, descr_2904, uuid, descr_2904_data) ==
    IF get_marshaller_lookup(registry, descr_2904, uuid).pc = "done"
    THEN get_marshaller_lookup(registry, descr_2904, uuid).result
    ELSE get_marshaller_parse(descr_2904_data).result

\* characteristic.py:66-74: synchronous; descr_2904 is unpacked itself, and the
\* format code, not the table entry, is handed to the constructor
characteristic_get_marshaller(registry, descr_2904, uuid, host) ==
    IF uuid # NoUuid /\ uuid \in DOMAIN registry
    THEN Outcome("done", BaseObj(registry[uuid]), NoneV)
    ELSE IF Truth(descr_2904)
    THEN LET f == characteristic_unpack_descr_2904(descr_2904, host)
         IN  IF IsError(f) THEN Outcome("done", f, f)
             ELSE IF f.format \in DOMAIN characteristic_Table_2904_bytes_format
                  THEN Outcome("done",
                           characteristic_BleakGATTPackMarshaller_init(
                               CodeArg(f.format), f.exponent, f.unit), f)
             ELSE Outcome("done", BaseObj("BleakGATTMarshaller"), f)
    ELSE Outcome("done", BaseObj("BleakGATTMarshaller"), NoneV)

\* ------------------------------------------------------------------- state

VARIABLES
    module,                    \* which of the two source files is imported
    host,                      \* the build: byte order, assertions enabled
    Table_uuid_to_marshaller,  \* the registry: uuid -> class
    m,                         \* per task: the codec it holds, or None
    built,                     \* per task: the format code, exponent and unit
                               \* its codec was built from (history)
    frame                      \* per task: its current or last call

vars == <<module, host, Table_uuid_to_marshaller, m, built, frame>>

Modules == {"marshall2904", "characteristic"}
Hosts == [big : BOOLEAN, asserts : BOOLEAN]

NTasks == 2
Tasks == 1..NTasks

EmptyRegistry == [u \in {} |-> "BleakGATTMarshaller"]

Frame(pc, op, uuid, descr, reg0, read, parsed, self, arg, data, result, chain) ==
    [pc |-> pc, op |-> op, uuid |-> uuid, descr |-> descr, reg0 |-> reg0,
     read |-> read, parsed |-> parsed, self |-> self, arg |-> arg,
     data |-> data, result |-> result, chain |-> chain]

IdleFrame ==
    Frame("idle", "none", NoUuid, NoneV, EmptyRegistry, NoneV, NoneV, 0,
          NoneV, NoneV, NoneV, NoneV)

Init ==
    /\ module \in Modules
    /\ host \in Hosts
    /\ Table_uuid_to_marshaller = EmptyRegistry
    /\ m = [t \in Tasks |-> NoneV]
    /\ built = [t \in Tasks |-> NoneV]
    /\ frame = [t \in Tasks |-> IdleFrame]

Returned(t) == frame[t].pc \in {"idle", "done"}

\* A call's frame does not depend on the task's earlier calls (every call
\* overwrites it), so each task is followed through one resolution, then one
\* call of a codec and one call chained to it.
Fresh(t) == frame[t].pc = "idle"
FirstUse(t) == Returned(t) /\ frame[t].op \in {"none", "get_marshaller", "construct"}

\* what a finished call leaves in the caller's variable
Kept(old, pc, result) ==
    IF pc = "done" /\ ~IsError(result) THEN result ELSE old

\* history: the descriptor fields a pack codec was built from
BuiltFrom(old, r) ==
    IF r.pc = "done" /\ ~IsError(r.result) /\ IsPack(r.result) THEN r.parsed ELSE old

\* marshall2904.py:46 / characteristic.py:62: the caller's code adds an entry
Register(uuid, class) ==
    /\ uuid \notin DOMAIN Table_uuid_to_marshaller
    /\ Table_uuid_to_marshaller' =
           [u \in DOMAIN Table_uuid_to_marshaller \cup {uuid} |->
               IF u = uuid THEN class ELSE Table_uuid_to_marshaller[u]]
    /\ UNCHANGED <<module, host, m, built, frame>>

\* marshall2904.py:50-55 / characteristic.py:66-74: the call, up to its first
\* suspension or its return
CallGetMarshaller(t, uuid, descr_2904) ==
    /\ Fresh(t)
    /\ m[t] = NoneV
    /\ LET r == IF module = "marshall2904"
                THEN get_marshaller_lookup(Table_uuid_to_marshaller, descr_2904, uuid)
                ELSE characteristic_get_marshaller(Table_uuid_to_marshaller,
                                                   descr_2904, uuid, host)
       IN  /\ frame' = [frame EXCEPT ![t] =
                  Frame(r.pc, "get_marshaller", uuid, descr_2904,
                        Table_uuid_to_marshaller, NoneV, r.parsed, 0, NoneV,
                        NoneV, r.result, NoneV)]
           /\ m' = [m EXCEPT ![t] = Kept(@, r.pc, r.result)]
           /\ built' = [built EXCEPT ![t] = BuiltFrom(@, r)]
    /\ UNCHANGED <<module, host, Table_uuid_to_marshaller>>

\* marshall2904.py:55-59: the awaited read completes
ResumeGetMarshaller(t, descr_2904_data) ==
    /\ frame[t].pc = "await_read"
    /\ LET r == get_marshaller_parse(descr_2904_data)
       IN  /\ frame' = [frame EXCEPT ![t] =
                  [@ EXCEPT !.pc = r.pc, !.read = descr_2904_data,
                            !.parsed = r.parsed, !.result = r.result]]
           /\ m' = [m EXCEPT ![t] = Kept(@, r.pc, r.result)]
           /\ built' = [built EXCEPT ![t] = BuiltFrom(@, r)]
    /\ UNCHANGED <<module, host, Table_uuid_to_marshaller>>

\* BleakGATTPackMarshaller(Table_2904_bytes_format[code], exponent, unit)
Construct(t, code, exponent, unit) ==
    /\ Fresh(t)
    /\ m[t] = NoneV
    /\ LET r == IF module = "marshall2904"
                THEN BleakGATTPackMarshaller_init(
                         EntryArg(Table_2904_bytes_format[code]), exponent, unit)
                ELSE characteristic_BleakGATTPackMarshaller_init(
                         EntryArg(characteristic_Table_2904_bytes_format[code]),
                         exponent, unit)
       IN  /\ frame' = [frame EXCEPT ![t] =
                  Frame("done", "construct", NoUuid, NoneV, EmptyRegistry, NoneV,
                        NoneV, 0, Fields(code, exponent, unit, 0, 0), NoneV, r,
                        NoneV)]
           /\ m' = [m EXCEPT ![t] = Kept(@, "done", r)]
           /\ built' = [built EXCEPT ![t] =
                  IF IsError(r) THEN @ ELSE Fields(code, exponent, unit, 0, 0)]
    /\ UNCHANGED <<module, host, Table_uuid_to_marshaller>>

CallFrame(op, u, arg, step, next, chain) ==
    Frame(IF step.done THEN "done" ELSE next, op, NoUuid, NoneV, EmptyRegistry,
          NoneV, NoneV, u, arg, IF step.done THEN NoneV ELSE step.data,
          IF step.done THEN step.data ELSE NoneV, chain)

\* m[u].marshall(data), up to line 85 (marshall2904) / 95 (characteristic)
CallMarshall(t, u, data, chain) ==
    /\ Returned(t)
    /\ m[u] # NoneV
    /\ LET step == IF ~IsPack(m[u]) THEN Step(TRUE, BleakGATTMarshaller_marshall(data))
                   ELSE IF module = "marshall2904" THEN marshall_scale(m[u], data)
                   ELSE characteristic_marshall_scale(m[u], data)
       IN  frame' = [frame EXCEPT ![t] =
               CallFrame("marshall", u, data, step, "marshall_pack", chain)]
    /\ UNCHANGED <<module, host, Table_uuid_to_marshaller, m, built>>

\* a faulty MarshallPack: marshall keeps the length it packed in the codec
MarshallPack_caching(t, quiet) ==
    /\ frame[t].pc = "marshall_pack"
    /\ LET r == marshall_pack(m[frame[t].self], frame[t].data, host, quiet)
       IN  /\ frame' = [frame EXCEPT ![t] =
                  [@ EXCEPT !.pc = "done", !.data = NoneV, !.result = r]]
           /\ m' = [m EXCEPT ![frame[t].self] =
                  [@ EXCEPT !.unit = IF IsError(r) THEN 0 ELSE Len(r.b)]]
    /\ UNCHANGED <<module, host, Table_uuid_to_marshaller, built>>

\* the rest of marshall: convert, pack, check the length, return
MarshallPack(t, quiet) ==
    /\ frame[t].pc = "marshall_pack"
    /\ frame' = [frame EXCEPT ![t] =
           [@ EXCEPT !.pc = "done", !.data = NoneV,
                     !.result = marshall_pack(m[frame[t].self], frame[t].data,
                                              host, quiet)]]
    /\ UNCHANGED <<module, host, Table_uuid_to_marshaller, m, built>>

\* m[u].unmarshall(data_bytes), up to line 96 (marshall2904) / 106 (characteristic)
CallUnmarshall(t, u, data_bytes, quiet, chain) ==
    /\ Returned(t)
    /\ m[u] # NoneV
    /\ LET step == IF ~IsPack(m[u])
                   THEN Step(TRUE, BleakGATTMarshaller_unmarshall(data_bytes))
                   ELSE IF module = "marshall2904"
                   THEN unmarshall_unpack(m[u], data_bytes, host, quiet)
                   ELSE characteristic_unmarshall_unpack(m[u], data_bytes, host, quiet)
       IN  frame' = [frame EXCEPT ![t] =
               CallFrame("unmarshall", u, data_bytes, step, "unmarshall_scale", chain)]
    /\ UNCHANGED <<module, host, Table_uuid_to_marshaller, m, built>>

\* the rest of unmarshall: apply the exponent, return
UnmarshallScale(t) ==
    /\ frame[t].pc = "unmarshall_scale"
    /\ frame' = [frame EXCEPT ![t] =
           [@ EXCEPT !.pc = "done", !.data = NoneV,
                     !.result = IF module = "marshall2904"
                                THEN unmarshall_scale(m[frame[t].self], frame[t].data)
                                ELSE characteristic_unmarshall_scale(
                                         m[frame[t].self], frame[t].data)]]
    /\ UNCHANGED <<module, host, Table_uuid_to_marshaller, m, built>>

\* ------------------------------------------------------------------ inputs

MaxLen == 9
MaxDescrLen == 9
MaxText == 2

Pattern(n, first, mid, last) ==
    IF n = 0 THEN <<>>
    ELSE IF n = 1 THEN <<first>>
    ELSE <<first>> \o Repeat(mid, n - 2) \o <<last>>

\* E8 03; binary32 signalling NaN, quiet NaN, 1.0; binary64 signalling NaN;
\* UTF-8 of "A", U+00E9, U+20AC, U+1F600, "A" U+00E9; a lone lead byte; an
\* encoded surrogate
SampleBytes ==
    {<<232, 3>>, <<0, 0, 160, 127>>, <<0, 0, 192, 127>>, <<0, 0, 128, 63>>,
     <<1, 0, 0, 0, 0, 0, 240, 127>>, <<65>>, <<195, 169>>, <<226, 130, 172>>,
     <<240, 159, 152, 128>>, <<65, 195, 169>>, <<195>>, <<237, 160, 128>>}

ValueBytes ==
    {Pattern(n, first, tail[1], tail[2]) :
        n \in 0..MaxLen, first \in {0, 1, 2, 255},
        tail \in {<<0, 0>>, <<0, 128>>, <<255, 127>>, <<255, 255>>}}
    \cup SampleBytes

\* 0 and the values around the edges of every width: 2^(8n)-1, 2^(8n-1)-1,
\* 2^(8n-1), 2^(8(n-1)), each with both signs; and 1000
IntInputs ==
    {IntV(neg /\ mag # <<>>, mag) :
        neg \in BOOLEAN,
        mag \in {Strip(Pattern(n, s[1], s[2], s[3])) :
                    n \in 0..MaxLen,
                    s \in {<<255, 255, 255>>, <<255, 255, 127>>,
                           <<0, 0, 128>>, <<0, 0, 1>>}}
                \cup {<<232, 3>>}}

BoolInputs == {BoolV(TRUE), BoolV(FALSE)}

CodePoints == {65, 233, 8364, 128512}

RECURSIVE Texts(_)
Texts(n) ==
    IF n = 0 THEN {<<>>}
    ELSE Texts(n - 1) \cup {Append(s, c) : s \in Texts(n - 1), c \in CodePoints}

StrInputs == {StrV(s) : s \in Texts(MaxText)}

FloatInputs(fmt) ==
    IF CalcSize(fmt) = 4
    THEN {UnpackFloat32(b, FALSE) : b \in {x \in ValueBytes : Len(x) = 4}}
    ELSE {UnpackFloat64(b) : b \in {x \in ValueBytes : Len(x) = 8}}

\* the typed values a caller hands to marshall: values of the codec's kind
MarshallInputs(obj) ==
    IF obj.kind # "object" THEN {}
    ELSE IF ~IsPack(obj) THEN {BytesV(b) : b \in SampleBytes}
    ELSE CASE obj.frompython \in {"bool", "int"} -> IntInputs \cup BoolInputs
           [] obj.frompython = "float" -> FloatInputs(obj.format)
           [] obj.frompython = "str2bytes" -> StrInputs
           [] obj.frompython = "bytes" -> {BytesV(b) : b \in SampleBytes}

QuietChoices(obj) ==
    IF IsPack(obj) /\ obj.format \in {"<f", "f"} THEN BOOLEAN
    ELSE {FALSE}

\* descriptor values on the device: well-formed ones, cut short or run over
DescrFormats == FormatCodes \cup {7, 99}
Exponents == {-128, -2, 0, 3, 127}
Units == {0, 10024}

WellFormed(format, exponent, unit) ==
    <<format, exponent % 256, unit % 256, unit \div 256, 1, 0, 0>>

DescrData ==
    {BytesV(SubSeq(WellFormed(f, e, u) \o <<0, 0, 0>>, 1, n)) :
        f \in DescrFormats, e \in Exponents, u \in Units, n \in 0..MaxDescrLen}

\* what the caller passes as descr_2904: marshall2904 is given the descriptor
\* object (or None) and reads it; characteristic.py unpacks its argument, and
\* its caller (characteristic.py:168-170) passes the descriptor object
DescrArgs ==
    IF module = "marshall2904" THEN {NoneV, DescriptorObj}
    ELSE {NoneV, DescriptorObj} \cup DescrData

\* write back what was read: marshall the value unmarshall returned
ChainMarshall(t) ==
    /\ frame[t].op = "unmarshall"
    /\ frame[t].pc = "done"
    /\ ~IsError(frame[t].result)
    /\ frame[t].chain = NoneV
    /\ CallMarshall(t, frame[t].self, frame[t].result, frame[t].arg)

\* read back what was written: unmarshall the bytes marshall returned
ChainUnmarshall(t, quiet) ==
    /\ frame[t].op = "marshall"
    /\ frame[t].pc = "done"
    /\ ~IsError(frame[t].result)
    /\ frame[t].chain = NoneV
    /\ CallUnmarshall(t, frame[t].self, frame[t].result, quiet, frame[t].arg)

\* One caller; nothing is registered.
Next ==
    \/ /\ Fresh(1)
       /\ \E uuid \in {NoUuid, "u1"}, d \in DescrArgs : CallGetMarshaller(1, uuid, d)
    \/ /\ frame[1].pc = "await_read"
       /\ \E d \in DescrData \cup {Raise("BleakError")} : ResumeGetMarshaller(1, d)
    \/ /\ Fresh(1)
       /\ \E c \in FormatCodes, e \in Exponents, u \in Units : Construct(1, c, e, u)
    \/ /\ FirstUse(1)
       /\ \E data \in MarshallInputs(m[1]) : CallMarshall(1, 1, data, NoneV)
    \/ ChainMarshall(1)
    \/ /\ frame[1].pc = "marshall_pack"
       /\ \E q \in QuietChoices(m[1]) : MarshallPack(1, q)
    \/ /\ FirstUse(1)
       /\ m[1] # NoneV
       /\ \E b \in ValueBytes, q \in QuietChoices(m[1]) :
              CallUnmarshall(1, 1, BytesV(b), q, NoneV)
    \/ \E q \in QuietChoices(m[1]) : ChainUnmarshall(1, q)
    \/ UnmarshallScale(1)

Spec == Init /\ [][Next]_vars

\* ------------------------------------------------- several callers at once
\* Tasks call get_marshaller, marshall and unmarshall on their own and on each
\* other's codecs, interleaved at every suspension and between the two halves
\* of marshall and unmarshall, while the caller's code registers uuids.

ConcDescrData ==
    {BytesV(WellFormed(6, 0, 0)), BytesV(WellFormed(6, -2, 0)),
     BytesV(WellFormed(25, 0, 0)), BytesV(WellFormed(99, 0, 0)),
     BytesV(SubSeq(WellFormed(6, 0, 0), 1, 6)), Raise("BleakError")}

ConcDescrArgs ==
    IF module = "marshall2904" THEN {NoneV, DescriptorObj}
    ELSE {NoneV, DescriptorObj, BytesV(SubSeq(WellFormed(6, 0, 0), 1, 6)),
          BytesV(WellFormed(99, 0, 0) \o <<0>>)}

ConcMarshallInputs(obj) ==
    IF obj.kind # "object" THEN {}
    ELSE IF IsPack(obj) /\ obj.frompython = "int" THEN {PyInt(1000)}
    ELSE IF IsPack(obj) THEN {StrV(<<233>>)}
    ELSE {BytesV(<<232, 3>>)}

NextConc ==
    \/ \E class \in {"BleakGATTMarshaller", "UserMarshaller"} : Register("u1", class)
    \/ \E t \in Tasks :
          \/ /\ Fresh(t)
             /\ \E uuid \in {NoUuid, "u1"}, d \in ConcDescrArgs :
                    CallGetMarshaller(t, uuid, d)
          \/ /\ frame[t].pc = "await_read"
             /\ \E d \in ConcDescrData : ResumeGetMarshaller(t, d)
          \/ \E c \in {6, 25}, e \in {0, -2} : Construct(t, c, e, 0)
          \/ \E u \in Tasks :
                /\ FirstUse(t)
                /\ \E data \in ConcMarshallInputs(m[u]) : CallMarshall(t, u, data, NoneV)
          \/ MarshallPack(t, FALSE)
          \/ \E u \in Tasks :
                /\ FirstUse(t)
                /\ \E b \in {<<232, 3>>, <<195, 169>>, <<65>>} :
                       CallUnmarshall(t, u, BytesV(b), FALSE, NoneV)
          \/ UnmarshallScale(t)

SpecConc == Init /\ [][NextConc]_vars

\* ------------------------------------------------------------------ claims

GetDone(t) == frame[t].op = "get_marshaller" /\ frame[t].pc = "done"

\* the uuid of the call was registered when the call was made
Registered(t) == frame[t].uuid # NoUuid /\ frame[t].uuid \in DOMAIN frame[t].reg0

\* the descriptor bytes the resolver was given: read from the device
\* (marshall2904) or passed in (characteristic)
HasDescrBytes(t) ==
    IF module = "marshall2904" THEN frame[t].read.kind = "bytes"
    ELSE frame[t].descr.kind = "bytes"

TheDescrBytes(t) ==
    IF module = "marshall2904" THEN frame[t].read.b ELSE frame[t].descr.b

\* the codec a call is made on
Self(t) == m[frame[t].self]

\* C1: whenever the uuid is registered, resolve returns the codec built from
\* the registry entry, whatever the descriptor is, and the descriptor is
\* neither read (no suspension at the read, nothing read) nor parsed.
C1_RegistryFirst ==
    \A t \in Tasks :
        (frame[t].op = "get_marshaller" /\ Registered(t))
        => /\ frame[t].pc = "done"
           /\ frame[t].read = NoneV
           /\ frame[t].parsed = NoneV
           /\ frame[t].result = BaseObj(frame[t].reg0[frame[t].uuid])

\* a registered uuid resolved with a descriptor present
C1_Witness ==
    \E t \in Tasks :
        /\ GetDone(t)
        /\ Registered(t)
        /\ Truth(frame[t].descr)
        /\ frame[t].result = BaseObj("UserMarshaller")

\* C2: unregistered or absent uuid, descriptor bytes present with a length
\* other than 7: resolve fails with the parse error and returns no codec.
C2_MalformedRaises ==
    \A t \in Tasks :
        (GetDone(t) /\ ~Registered(t) /\ HasDescrBytes(t) /\ Len(TheDescrBytes(t)) # 7)
        => frame[t].result = Raise("struct.error")

\* the fields of a well-formed descriptor: little-endian u8 i8 u16 u8 u16
FieldsOf(b) ==
    Fields(b[1], I8(b[2]), b[3] + (256 * b[4]), b[5], b[6] + (256 * b[7]))

WellFormedCall(t) ==
    GetDone(t) /\ ~Registered(t) /\ HasDescrBytes(t) /\ Len(TheDescrBytes(t)) = 7

FixedCodes == {c \in FormatCodes : Table_2904_bytes_format[c].length # 0}
IntCodes == {2, 3, 4, 5, 6, 8, 10, 12, 13, 14, 16, 18}
SignedCodes == {12, 13, 14, 16, 18}
UnsignedCodes == {2, 3, 4, 5, 6, 8, 10}

\* C3 (marshall2904.py, which the claim cites): unregistered or absent uuid
\* and a well-formed 7-byte descriptor: resolve
\* returns without error, a pack codec holding the table entry of the format
\* code with the descriptor's exponent and unit when the code is in the table
\* (every exponent), the identity codec when it is not.
C3_WellFormedResolves ==
    \A t \in Tasks :
        (WellFormedCall(t) /\ module = "marshall2904")
        => LET f == FieldsOf(TheDescrBytes(t))
           IN  frame[t].result =
                   IF f.format \in FormatCodes
                   THEN PackObj(TableOf(module)[f.format], f.exponent, f.unit)
                   ELSE BaseObj("BleakGATTMarshaller")

\* marshall(unmarshall(bytes)) has returned, on a pack codec
RoundTrip(t) ==
    /\ frame[t].op = "marshall"
    /\ frame[t].pc = "done"
    /\ frame[t].chain # NoneV
    /\ IsPack(Self(t))

SignallingNaN32(b) ==
    /\ (b[4] % 128) = 127
    /\ b[3] >= 128
    /\ b[3] < 192
    /\ <<b[1], b[2], b[3] % 64>> # <<0, 0, 0>>

\* C4 as stated: with exponent 0, marshall(unmarshall(bytes)) = bytes for
\* every sequence unmarshall accepts (marshall2904.py, which the claim cites).
C4_RoundTripExact ==
    \A t \in Tasks :
        (RoundTrip(t) /\ module = "marshall2904" /\ Self(t).exponent = 0)
        => frame[t].result = frame[t].chain

\* C4 as amended: the same, except that under the boolean format a byte
\* other than 00 and 01 comes back as 01, and under the 32-bit float format a
\* signalling NaN may come back with its quiet bit set.
C4_RoundTripAmended ==
    \A t \in Tasks :
        (RoundTrip(t) /\ module = "marshall2904" /\ Self(t).exponent = 0)
        => \/ frame[t].result = frame[t].chain
           \/ /\ Self(t).format = "<?"
              /\ frame[t].chain.b[1] \notin {0, 1}
              /\ frame[t].result = BytesV(<<1>>)
           \/ /\ Self(t).format = "<f"
              /\ SignallingNaN32(frame[t].chain.b)
              /\ frame[t].result =
                     BytesV([frame[t].chain.b EXCEPT ![3] = @ + 64])

\* E8 03 went through an unsigned 16-bit codec and came back
C4_Witness ==
    \E t \in Tasks :
        /\ RoundTrip(t)
        /\ module = "marshall2904"
        /\ Self(t).format = "<H"
        /\ frame[t].chain = BytesV(<<232, 3>>)
        /\ frame[t].result = BytesV(<<232, 3>>)

\* C5: on a fixed-width codec of any exponent, unmarshall of a sequence whose
\* length is not the width fails with the length error and returns nothing.
C5_LengthMismatch ==
    \A t \in Tasks :
        (/\ frame[t].op = "unmarshall"
         /\ IsPack(Self(t))
         /\ Self(t).length # 0
         /\ Len(frame[t].arg.b) # Self(t).length)
        => /\ frame[t].pc = "done"
           /\ frame[t].result \in {Raise("AssertionError"), Raise("struct.error")}

\* an over-long value was refused by a codec with a non-zero exponent
C5_Witness ==
    \E t \in Tasks :
        /\ frame[t].op = "unmarshall"
        /\ IsPack(Self(t))
        /\ Self(t).length = 2
        /\ Self(t).exponent # 0
        /\ Len(frame[t].arg.b) = 3
        /\ IsError(frame[t].result)

\* what the claims call the transmitted scalar: the little-endian item of
\* the format code's layout
Transmitted(code, b, quiet) ==
    struct_unpack(Table_2904_bytes_format[code].format, b,
                  [big |-> FALSE, asserts |-> TRUE], quiet)

\* unmarshall has returned from a fixed-width codec given bytes of its width
Decoded(t) ==
    /\ frame[t].op = "unmarshall"
    /\ frame[t].pc = "done"
    /\ IsPack(Self(t))
    /\ Self(t).length # 0
    /\ Len(frame[t].arg.b) = Self(t).length

BuiltOf(t) == built[frame[t].self]

\* C6: a codec resolved from a descriptor with a fixed-width format and
\* exponent e exists, and its unmarshall of byteWidth bytes returns the
\* transmitted scalar n itself when e = 0 and the float n * 10^e otherwise.
C6_UnmarshallValue ==
    \A t \in Tasks :
        /\ (WellFormedCall(t) /\ FieldsOf(TheDescrBytes(t)).format \in FixedCodes)
           => IsPack(frame[t].result)
        /\ Decoded(t)
           => \E quiet \in BOOLEAN :
                 LET n == Transmitted(BuiltOf(t).format, frame[t].arg.b, quiet)
                 IN  frame[t].result =
                         IF Self(t).exponent = 0 THEN n
                         ELSE MulFloatPow10(n, Self(t).exponent)

\* C7: for every fixed-width integer format and every exponent the codec
\* exists, and marshall undoes unmarshall: marshall(unmarshall(b)) = b.
C7_ScaledInverse ==
    \A t \in Tasks :
        /\ (WellFormedCall(t) /\ FieldsOf(TheDescrBytes(t)).format \in IntCodes)
           => IsPack(frame[t].result)
        /\ (frame[t].op = "construct" /\ frame[t].arg.format \in IntCodes)
           => IsPack(frame[t].result)
        /\ (RoundTrip(t) /\ Self(t).frompython = "int")
           => frame[t].result = frame[t].chain

\* two's complement little-endian bytes of an int, at width w
TwosComplement(n, w) ==
    IF n.neg THEN TwosNeg(ZeroPad(n.mag, w)) ELSE ZeroPad(n.mag, w)

\* C8: with exponent 0, the signed codes 12, 13, 14, 16, 18 decode bytes with
\* the top bit set to a negative value (all FF to -1) and encode every value
\* of the signed range as its two's complement; the unsigned codes decode to
\* a value in [0, 2^(8w) - 1].
C8_Signedness ==
    \A t \in Tasks :
        /\ (Decoded(t) /\ BuiltOf(t).exponent = 0 /\ BuiltOf(t).format \in SignedCodes)
           => /\ frame[t].arg.b[Self(t).length] >= 128
                 => (frame[t].result.kind = "int" /\ frame[t].result.neg)
              /\ frame[t].arg.b = Repeat(255, Self(t).length)
                 => frame[t].result = PyInt(-1)
        /\ (Decoded(t) /\ BuiltOf(t).exponent = 0 /\ BuiltOf(t).format \in UnsignedCodes)
           => /\ frame[t].result.kind = "int"
              /\ ~frame[t].result.neg
              /\ Len(frame[t].result.mag) <= Self(t).length
        /\ (/\ frame[t].op = "marshall"
            /\ frame[t].pc = "done"
            /\ frame[t].chain = NoneV
            /\ IsPack(Self(t))
            /\ BuiltOf(t).exponent = 0
            /\ BuiltOf(t).format \in SignedCodes
            /\ frame[t].arg.kind = "int"
            /\ InRange("i", Self(t).length, frame[t].arg.neg, frame[t].arg.mag))
           => frame[t].result = BytesV(TwosComplement(frame[t].arg, Self(t).length))

\* C9 (marshall2904.py, which the claim cites): a descriptor with format 25
\* or 27 and any exponent and unit resolves to a codec, and on such a codec
\* unmarshall(marshall(s)) = s for text and both directions are the identity
\* for opaque bytes, whatever the length.
C9_VariableLength ==
    \A t \in Tasks :
        /\ (/\ WellFormedCall(t)
            /\ module = "marshall2904"
            /\ FieldsOf(TheDescrBytes(t)).format \in {25, 27})
           => IsPack(frame[t].result)
        /\ (/\ frame[t].op = "unmarshall"
            /\ frame[t].pc = "done"
            /\ frame[t].chain # NoneV
            /\ IsPack(Self(t))
            /\ Self(t).topython = "bytes2str")
           => frame[t].result = frame[t].chain
        /\ (/\ frame[t].op \in {"marshall", "unmarshall"}
            /\ frame[t].pc = "done"
            /\ IsPack(Self(t))
            /\ Self(t).topython = "bytes")
           => frame[t].result = frame[t].arg

\* what the call of task t returns when it runs with nothing else running:
\* the whole method applied to the call's arguments, the registry as it was
\* at the call and the codec as it is
AloneResult(t) ==
    CASE frame[t].op = "get_marshaller" ->
           IF module = "marshall2904"
           THEN get_marshaller(frame[t].reg0, frame[t].descr, frame[t].uuid,
                               frame[t].read)
           ELSE characteristic_get_marshaller(frame[t].reg0, frame[t].descr,
                                              frame[t].uuid, host).result
      [] frame[t].op = "marshall" ->
           IF ~IsPack(Self(t)) THEN BleakGATTMarshaller_marshall(frame[t].arg)
           ELSE IF module = "marshall2904"
           THEN marshall(Self(t), frame[t].arg, host, FALSE)
           ELSE characteristic_marshall(Self(t), frame[t].arg, host, FALSE)
      [] frame[t].op = "unmarshall" ->
           IF ~IsPack(Self(t)) THEN BleakGATTMarshaller_unmarshall(frame[t].arg)
           ELSE IF module = "marshall2904"
           THEN unmarshall(Self(t), frame[t].arg, host, FALSE)
           ELSE characteristic_unmarshall(Self(t), frame[t].arg, host, FALSE)

C10_Alone ==
    \A t \in Tasks :
        (frame[t].pc = "done" /\ frame[t].op \in {"get_marshaller", "marshall", "unmarshall"})
        => frame[t].result = AloneResult(t)

\* a step of a call (one that moves a frame) writes neither the registry nor
\* a codec that exists
C10_Step ==
    /\ \A u \in Tasks : m[u] # NoneV => m'[u] = m[u]
    /\ frame' # frame => Table_uuid_to_marshaller' = Table_uuid_to_marshaller

\* C10: under every interleaving of resolve, marshall and unmarshall calls no
\* call writes the registry or the fields of a constructed codec, and each
\* call returns what it returns when run alone.
C10_NoSharedWrites == [](C10_Alone) /\ [][C10_Step]_vars

\* two calls are in progress on the same codec, and a third party's resolve
\* is not needed for that: one marshalling, one unmarshalling
C10_Witness ==
    \E t \in Tasks, u \in Tasks :
        /\ frame[t].pc = "marshall_pack"
        /\ frame[u].pc = "unmarshall_scale"
        /\ frame[t].self = frame[u].self

====
